---- MODULE Spec2Model ----
(***************************************************************************)
(* ZikProxy (src/kizkiz/bluetooth.py): the protocol engine that talks to a *)
(* Parrot Zik over an RFCOMM channel.  The model keeps the engine's cached *)
(* device state, its observer registry and its channel, and records for    *)
(* the last operation what it handed to the transport, which observers it  *)
(* called and which exception it raised.                                   *)
(*                                                                         *)
(* Representation.                                                         *)
(*  - Python None is the empty tuple <<>>, a present value v is <<v>>.     *)
(*  - Text that the code only compares or copies (paths, version, the      *)
(*    enabled/state attributes, preset names) is a TLA+ string; text that  *)
(*    the code parses with int() is a tuple of one-character strings.      *)
(*  - An inbound buffer is described by its actual length, its first three *)
(*    bytes, the XML document that starts at offset 7, that document's     *)
(*    length, and the kind of bytes that follow the document.  The XML     *)
(*    document is given as the mapping xmltodict.parse returns for it.     *)
(*  - An outbound buffer is its two length bytes, its type byte and its    *)
(*    body text.                                                           *)
(***************************************************************************)
EXTENDS Integers, Sequences, FiniteSets, TLC

(* ------------------------------ bounds -------------------------------- *)

\* Observers are numbered 1..NumObservers.
NumObservers == 2

\* Preset ids passed to the s_eq_preset_id setter and to preset_by_id
\* range over 0..MaxPresetId.
MaxPresetId == 2

\* Byte length of the XML document carried by the modelled 0x80 packets.
XmlLen == 40

\* Calls of the noise-cancellation setter the user makes against the
\* modelled headphones.
MaxSets == 2

(* -------------------------- program constants ------------------------- *)

kIOReturnSuccess == 0

\* Any other IOReturn code of writeSync:length:.
kIOReturnError == 1

IN_USE == 10

CHARGING == 20

CALC == 30

\* Packet type bytes: 0x00 handshake, 0x80 request / answer / notify.
TYPE_HANDSHAKE == 0

TYPE_MESSAGE == 128

\* Bytes before the XML body of a 0x80 packet: '>HB' then '>BBH'.
HEADER_LEN == 3

SUBHEADER_LEN == 4

ZIK_SYS_BATTERY_GET == "/api/system/battery/get"

ZIK_SYS_DEVICE_TYPE_GET == "/api/system/device_type/get"

ZIK_SYS_VERSION_GET == "/api/software/version/get"

ZIK_AUDIO_NOISE_GET == "/api/audio/noise_cancellation/enabled/get"

ZIK_AUDIO_NOISE_SET == "/api/audio/noise_cancellation/enabled/set"

ZIK_AUDIO_SPECIFIC_MODE_GET == "/api/audio/specific_mode/enabled/get"

ZIK_EQ_GET == "/api/audio/equalizer/get"

ZIK_EQ_PRESETS_GET == "/api/audio/equalizer/presets_list/get"

ZIK_EQ_ENABLE_SET == "/api/audio/equalizer/enabled/set"

ZIK_EQ_PRESET_SET == "/api/audio/equalizer/preset_id/set"

\* The six paths _handle_packet has a branch for.
HandledPaths ==
    {ZIK_SYS_BATTERY_GET, ZIK_AUDIO_NOISE_GET, ZIK_SYS_VERSION_GET,
     ZIK_AUDIO_SPECIFIC_MODE_GET, ZIK_EQ_PRESETS_GET, ZIK_EQ_GET}

None == <<>>

Some(v) == <<v>>

(* ------------------------- text and numbers --------------------------- *)

Digits == <<"0", "1", "2", "3", "4", "5", "6", "7", "8", "9">>

DigitSet == {Digits[i] : i \in DOMAIN Digits}

DigitValue(c) == (CHOOSE i \in DOMAIN Digits : Digits[i] = c) - 1

RECURSIVE digits_value(_, _)
digits_value(cs, acc) ==
    IF cs = <<>> THEN acc
    ELSE digits_value(Tail(cs), acc * 10 + DigitValue(Head(cs)))

RECURSIVE lstrip(_)
lstrip(cs) ==
    IF cs # <<>> /\ Head(cs) = " " THEN lstrip(Tail(cs)) ELSE cs

RECURSIVE rstrip(_)
rstrip(cs) ==
    IF cs # <<>> /\ cs[Len(cs)] = " "
    THEN rstrip(SubSeq(cs, 1, Len(cs) - 1))
    ELSE cs

\* int(text): surrounding blanks are skipped, one sign is allowed, and the
\* rest must be one or more decimal digits; anything else is a ValueError.
int(text) ==
    LET s == rstrip(lstrip(text))
        signed == s # <<>> /\ Head(s) \in {"+", "-"}
        d == IF signed THEN Tail(s) ELSE s
    IN  IF d # <<>> /\ \A i \in DOMAIN d : d[i] \in DigitSet
        THEN [ok |-> TRUE,
              val |-> IF signed /\ Head(s) = "-"
                      THEN 0 - digits_value(d, 0)
                      ELSE digits_value(d, 0)]
        ELSE [ok |-> FALSE, val |-> 0]

RECURSIVE str_nat(_)
str_nat(n) ==
    IF n < 10 THEN Digits[n + 1]
    ELSE str_nat(n \div 10) \o Digits[(n % 10) + 1]

\* str(n) for an integer n.
str(n) == IF n < 0 THEN "-" \o str_nat(0 - n) ELSE str_nat(n)

(* ------------------------------ framing ------------------------------- *)

\* struct.pack('>H', n): two bytes, most significant first.  struct refuses
\* a number that does not fit 16 bits.
pack_H(n) == <<(n \div 256) % 256, n % 256>>

pack_H_ok(n) == 0 <= n /\ n <= 65535

\* struct.unpack('>H', ..) of two bytes.
unpack_H(b) == b[1] * 256 + b[2]

\* Number of bytes of an outbound buffer.
FrameLen(f) == Len(f.hdr) + 1 + Len(f.body)

\* The literal '\x00\x03\x00' connect() writes.
HANDSHAKE == [hdr |-> <<0, 3>>, type |-> TYPE_HANDSHAKE, body |-> ""]

\* Values handed to _request: none, a bool or an integer.
NoValue == [kind |-> "none", b |-> FALSE, i |-> 0]

BoolValue(b) == [kind |-> "bool", b |-> b, i |-> 0]

IntValue(i) == [kind |-> "int", b |-> FALSE, i |-> i]

\* {True: 'true', False: 'false'}.get(value, value), formatted with {value}.
\* The dictionary is keyed by equality: 1 == True and 0 == False in Python.
arg_text(value) ==
    IF value.kind = "bool" THEN (IF value.b THEN "true" ELSE "false")
    ELSE IF value.i = 1 THEN "true"
    ELSE IF value.i = 0 THEN "false"
    ELSE str(value.i)

\* The message text _request builds.
request_message(method, endpoint, value) ==
    IF value.kind = "none" THEN method \o " " \o endpoint
    ELSE method \o " " \o endpoint \o "?arg=" \o arg_text(value)

\* struct.pack('>HB{count}s', len(message) + 3, 0x80, str(message)).
pack_frame_no_header(message) ==
    [hdr |-> pack_H(Len(message)), type |-> TYPE_MESSAGE, body |-> message]

pack_frame(message) ==
    [hdr |-> pack_H(Len(message) + HEADER_LEN), type |-> TYPE_MESSAGE,
     body |-> message]

request_frame(method, endpoint, value) ==
    pack_frame(request_message(method, endpoint, value))

(* --------------------------- inbound packets --------------------------- *)

\* The mapping xmltodict.parse returns for a document: its root element,
\* the attributes present (has), whether the element the endpoint's branch
\* descends to exists (node), and the attribute values.
Doc0 ==
    [wf |-> TRUE, root |-> "answer", has |-> {}, node |-> FALSE,
     path |-> "", state |-> "", level |-> <<>>, enabled |-> "",
     version |-> "", preset_id |-> <<>>, presets |-> <<>>]

\* Bytes that are not an XML document.
NotXml == [Doc0 EXCEPT !.wf = FALSE, !.root = ""]

\* struct.unpack('>HB', io.read(3)): fails on fewer than three bytes.
unpack_header(pkt) ==
    IF pkt.len < HEADER_LEN
    THEN [err |-> "struct.error", packet_size |-> 0, packet_type |-> 0]
    ELSE [err |-> "ok", packet_size |-> unpack_H(pkt.hdr),
          packet_type |-> pkt.type]

\* Lines 242-254: the sub-header is read, then `left` bytes are read and
\* unpacked as '>{left}s', and the result is given to xmltodict.parse.
\* io.read returns at most what the buffer still holds; struct.unpack
\* refuses a string whose length is not `left`, and a negative count.
\* Fewer bytes than the document is a truncated document; more bytes is the
\* document followed by the buffer's trailing bytes.
read_body(pkt, packet_size) ==
    LET left == packet_size - (HEADER_LEN + SUBHEADER_LEN)
        avail == pkt.len - (HEADER_LEN + SUBHEADER_LEN)
    IN  IF pkt.len < HEADER_LEN + SUBHEADER_LEN
        THEN [err |-> "struct.error", parsed |-> FALSE, body |-> NotXml]
        ELSE IF left < 0 \/ left > avail
        THEN [err |-> "struct.error", parsed |-> FALSE, body |-> NotXml]
        ELSE IF left < pkt.xmllen \/ (left > pkt.xmllen /\ pkt.pad = "junk")
                \/ ~pkt.xml.wf
        THEN [err |-> "ExpatError", parsed |-> TRUE, body |-> NotXml]
        ELSE [err |-> "ok", parsed |-> TRUE, body |-> pkt.xml]

(* ---------------------------- answer branches -------------------------- *)
\* Each branch takes the state st (a record of the eight _s_ fields) and the
\* answer node n, and gives the state it leaves and the exception it raises.
\* Assignments made before the raising statement stay.

Raise(st, e) == [st |-> st, err |-> e]

Done(st) == [st |-> st, err |-> "ok"]

\* Lines 269-286.
battery_answer_level_first(st, n) ==
    IF ~n.node \/ "level" \notin n.has THEN Raise(st, "KeyError")
    ELSE IF n.level = <<>>
    THEN Done([st EXCEPT !.battery_level = 0, !.battery_state = CALC])
    ELSE IF "state" \in n.has /\ n.state = "charging"
    THEN Done([st EXCEPT !.battery_level = 0 - 1,
                         !.battery_state = CHARGING])
    ELSE IF int(n.level).ok
    THEN Done([st EXCEPT !.battery_level = int(n.level).val,
                         !.battery_state = IN_USE])
    ELSE Raise(st, "ValueError")

battery_answer_keeps_state(st, n) ==
    IF ~n.node \/ "state" \notin n.has THEN Raise(st, "KeyError")
    ELSE IF n.state = "charging"
    THEN Done([st EXCEPT !.battery_level = 0 - 1,
                         !.battery_state = CHARGING])
    ELSE IF "level" \notin n.has THEN Raise(st, "KeyError")
    ELSE IF n.level = <<>>
    THEN Done([st EXCEPT !.battery_level = 0])
    ELSE IF int(n.level).ok
    THEN Done([st EXCEPT !.battery_level = int(n.level).val])
    ELSE Raise(st, "ValueError")

battery_answer(st, n) ==
    IF ~n.node \/ "state" \notin n.has THEN Raise(st, "KeyError")
    ELSE IF n.state = "charging"
    THEN Done([st EXCEPT !.battery_level = 0 - 1,
                         !.battery_state = CHARGING])
    ELSE LET st1 == [st EXCEPT !.battery_state = IN_USE]
         IN  IF "level" \notin n.has THEN Raise(st1, "KeyError")
             ELSE IF n.level = <<>>
             THEN Done([st1 EXCEPT !.battery_level = 0,
                                   !.battery_state = CALC])
             ELSE IF int(n.level).ok
             THEN Done([st1 EXCEPT !.battery_level = int(n.level).val])
             ELSE Raise(st1, "ValueError")

\* Lines 287-290.
noise_answer(st, n) ==
    IF ~n.node \/ "enabled" \notin n.has THEN Raise(st, "KeyError")
    ELSE Done([st EXCEPT !.noise_cancellation = (n.enabled = "true")])

\* Lines 291-293.
version_answer_keeps_first(st, n) ==
    IF ~n.node \/ "version" \notin n.has THEN Raise(st, "KeyError")
    ELSE IF st.version # None THEN Done(st)
    ELSE Done([st EXCEPT !.version = Some(n.version)])

version_answer(st, n) ==
    IF ~n.node \/ "version" \notin n.has THEN Raise(st, "KeyError")
    ELSE Done([st EXCEPT !.version = Some(n.version)])

\* Lines 294-297.
specific_mode_answer(st, n) ==
    IF ~n.node \/ "enabled" \notin n.has THEN Raise(st, "KeyError")
    ELSE Done([st EXCEPT !.specific_mode = Some(n.enabled = "true")])

\* Lines 298-304.  xmltodict gives None for a presets_list without
\* children, one mapping for a single preset child (iterating it yields its
\* keys, which cannot be indexed by '@id'), and a list for two or more.
\* The list is built completely before it is assigned.
presets_answer(st, n) ==
    IF ~n.node THEN Raise(st, "KeyError")
    ELSE IF Len(n.presets) < 2 THEN Raise(st, "TypeError")
    ELSE IF \E i \in DOMAIN n.presets : ~int(n.presets[i].id).ok
    THEN Raise(st, "ValueError")
    ELSE Done([st EXCEPT !.eq_presets =
                 [i \in DOMAIN n.presets |->
                    <<int(n.presets[i].id).val, n.presets[i].name>>]])

\* Lines 305-308.
eq_answer(st, n) ==
    IF ~n.node \/ "enabled" \notin n.has THEN Raise(st, "KeyError")
    ELSE LET st1 == [st EXCEPT !.eq_enabled = (n.enabled = "true")]
         IN  IF "preset_id" \notin n.has THEN Raise(st1, "KeyError")
             ELSE IF int(n.preset_id).ok
             THEN Done([st1 EXCEPT
                          !.eq_preset_id = Some(int(n.preset_id).val)])
             ELSE Raise(st1, "ValueError")

\* Lines 267-310: dispatch on the echoed path.
answer_branch_rejects_unknown(st, n) ==
    IF "path" \notin n.has THEN Raise(st, "KeyError")
    ELSE IF n.path = ZIK_SYS_BATTERY_GET THEN battery_answer(st, n)
    ELSE IF n.path = ZIK_AUDIO_NOISE_GET THEN noise_answer(st, n)
    ELSE IF n.path = ZIK_SYS_VERSION_GET THEN version_answer(st, n)
    ELSE IF n.path = ZIK_AUDIO_SPECIFIC_MODE_GET
    THEN specific_mode_answer(st, n)
    ELSE IF n.path = ZIK_EQ_PRESETS_GET THEN presets_answer(st, n)
    ELSE IF n.path = ZIK_EQ_GET THEN eq_answer(st, n)
    ELSE Raise(st, "ZikProtocolError")

answer_branch(st, n) ==
    IF "path" \notin n.has THEN Raise(st, "KeyError")
    ELSE IF n.path = ZIK_SYS_BATTERY_GET THEN battery_answer(st, n)
    ELSE IF n.path = ZIK_AUDIO_NOISE_GET THEN noise_answer(st, n)
    ELSE IF n.path = ZIK_SYS_VERSION_GET THEN version_answer(st, n)
    ELSE IF n.path = ZIK_AUDIO_SPECIFIC_MODE_GET
    THEN specific_mode_answer(st, n)
    ELSE IF n.path = ZIK_EQ_PRESETS_GET THEN presets_answer(st, n)
    ELSE IF n.path = ZIK_EQ_GET THEN eq_answer(st, n)
    ELSE Done(st)

(* --------------------------- engine state ------------------------------ *)

VARIABLES
    _s_version,             \* None or Some(text)
    _s_battery_level,       \* integer
    _s_battery_state,       \* IN_USE, CHARGING or CALC
    _s_noise_cancellation,  \* boolean
    _s_eq_presets,          \* sequence of <<id, name>>
    _s_eq_preset_id,        \* None or Some(integer)
    _s_eq_enabled,          \* boolean
    _s_specific_mode,       \* None or Some(boolean)
    _handlers,              \* set of observers
    _channel,               \* None or Some("rfcomm")
    op,                     \* the last operation and its argument
    err,                    \* "ok" or the exception the last operation raised
    writes,                 \* buffers the last operation handed to writeSync
    calls,                  \* observer -> times the last operation called it
    seen,                   \* Some(state the observers were called with)
    parsed,                 \* the last operation called xmltodict.parse
    first_write,            \* Some(first buffer ever handed to writeSync)
    iocodes,                \* IOReturn codes writeSync has for the last
                            \* operation's writes, in order
    zik_noise,              \* the headphones' own noise-cancellation value
    zik_applies,            \* the headphones apply SET requests
    to_zik,                 \* frames written and not yet read by the Zik
    to_host,                \* buffers sent by the Zik and not yet delivered
    sets_left               \* setter calls the user still makes

fields ==
    <<_s_version, _s_battery_level, _s_battery_state, _s_noise_cancellation,
      _s_eq_presets, _s_eq_preset_id, _s_eq_enabled, _s_specific_mode>>

vars ==
    <<_s_version, _s_battery_level, _s_battery_state, _s_noise_cancellation,
      _s_eq_presets, _s_eq_preset_id, _s_eq_enabled, _s_specific_mode,
      _handlers, _channel, op, err, writes, calls, seen, parsed, first_write,
      iocodes, zik_noise, zik_applies, to_zik, to_host, sets_left>>

\* The headphones and the two directions of the RFCOMM channel.
zik == <<zik_noise, zik_applies, to_zik, to_host, sets_left>>

Observers == 1 .. NumObservers

\* The eight _s_ fields as one record.
State ==
    [version |-> _s_version,
     battery_level |-> _s_battery_level,
     battery_state |-> _s_battery_state,
     noise_cancellation |-> _s_noise_cancellation,
     eq_presets |-> _s_eq_presets,
     eq_preset_id |-> _s_eq_preset_id,
     eq_enabled |-> _s_eq_enabled,
     specific_mode |-> _s_specific_mode]

\* The fields after the step.
StateNext ==
    [version |-> _s_version',
     battery_level |-> _s_battery_level',
     battery_state |-> _s_battery_state',
     noise_cancellation |-> _s_noise_cancellation',
     eq_presets |-> _s_eq_presets',
     eq_preset_id |-> _s_eq_preset_id',
     eq_enabled |-> _s_eq_enabled',
     specific_mode |-> _s_specific_mode']

Store(st) ==
    /\ _s_version' = st.version
    /\ _s_battery_level' = st.battery_level
    /\ _s_battery_state' = st.battery_state
    /\ _s_noise_cancellation' = st.noise_cancellation
    /\ _s_eq_presets' = st.eq_presets
    /\ _s_eq_preset_id' = st.eq_preset_id
    /\ _s_eq_enabled' = st.eq_enabled
    /\ _s_specific_mode' = st.specific_mode

NoCalls == [h \in Observers |-> 0]

(* ----------------------------- transport ------------------------------- *)

\* _write: one writeSync:length: call on the channel, which answers with an
\* IOReturn code.  Without a channel the attribute lookup on None raises
\* before anything is written.
_write_retries(chan, data, ioreturn) ==
    IF chan = None THEN [err |-> "AttributeError", writes |-> <<>>]
    ELSE IF ioreturn # kIOReturnSuccess
    THEN [err |-> "ZikDeviceError", writes |-> <<data, data>>]
    ELSE [err |-> "ok", writes |-> <<data>>]

_write(chan, data, ioreturn) ==
    IF chan = None THEN [err |-> "AttributeError", writes |-> <<>>]
    ELSE IF ioreturn # kIOReturnSuccess
    THEN [err |-> "ZikDeviceError", writes |-> <<data>>]
    ELSE [err |-> "ok", writes |-> <<data>>]

\* _request: build the message, pack it, write it.
_request(chan, method, endpoint, value, ioreturn) ==
    LET message == request_message(method, endpoint, value)
    IN  IF ~pack_H_ok(Len(message) + HEADER_LEN)
        THEN [err |-> "struct.error", writes |-> <<>>]
        ELSE _write(chan, pack_frame(message), ioreturn)

\* The IOReturn codes of n successive writes: the first k succeed.
WriteOutcomes(n) ==
    {[i \in 1 .. n |-> IF i <= k THEN kIOReturnSuccess ELSE kIOReturnError] :
        k \in 0 .. n}

\* The order of update_status's requests, lines 328-333.
StatusEndpoints ==
    <<ZIK_SYS_VERSION_GET, ZIK_SYS_BATTERY_GET, ZIK_AUDIO_NOISE_GET,
      ZIK_AUDIO_SPECIFIC_MODE_GET, ZIK_EQ_GET, ZIK_EQ_PRESETS_GET>>

\* Requests issued one after the other; the first exception ends them.
RECURSIVE get_each(_, _, _)
get_each(chan, endpoints, ioreturns) ==
    IF endpoints = <<>> THEN [err |-> "ok", writes |-> <<>>]
    ELSE LET r == _request(chan, "GET", Head(endpoints), NoValue,
                          Head(ioreturns))
         IN  IF r.err # "ok" THEN r
             ELSE LET rest == get_each(chan, Tail(endpoints),
                                       Tail(ioreturns))
                  IN  [err |-> rest.err, writes |-> r.writes \o rest.writes]

update_status(chan, ioreturns) == get_each(chan, StatusEndpoints, ioreturns)

\* connect(), lines 143-169.  getRFCOMMChannelID_ or the channel open may
\* fail before the channel is stored; then the handshake is written and
\* update_status() follows.
connect_status_first(chan, stage, ioreturns) ==
    IF stage # "opened"
    THEN [chan |-> chan, err |-> "ZikDeviceError", writes |-> <<>>]
    ELSE LET u == update_status(Some("rfcomm"), Tail(ioreturns))
         IN  IF u.err # "ok"
             THEN [chan |-> Some("rfcomm"), err |-> u.err,
                   writes |-> u.writes]
             ELSE LET hs == _write(Some("rfcomm"), HANDSHAKE,
                                   Head(ioreturns))
                  IN  [chan |-> Some("rfcomm"), err |-> hs.err,
                       writes |-> u.writes \o hs.writes]

connect(chan, stage, ioreturns) ==
    IF stage # "opened"
    THEN [chan |-> chan, err |-> "ZikDeviceError", writes |-> <<>>]
    ELSE LET hs == _write(Some("rfcomm"), HANDSHAKE, Head(ioreturns))
         IN  IF hs.err # "ok"
             THEN [chan |-> Some("rfcomm"), err |-> hs.err,
                   writes |-> hs.writes]
             ELSE LET u == update_status(Some("rfcomm"), Tail(ioreturns))
                  IN  [chan |-> Some("rfcomm"), err |-> u.err,
                       writes |-> hs.writes \o u.writes]

(* ------------------------------ setters -------------------------------- *)

\* Lines 381-385.
s_noise_cancellation_write_first(st, chan, value, ioreturn) ==
    LET r == _request(chan, "SET", ZIK_AUDIO_NOISE_SET, BoolValue(value),
                      ioreturn)
    IN  [st |-> IF r.err = "ok"
                THEN [st EXCEPT !.noise_cancellation = value] ELSE st,
         err |-> r.err, writes |-> r.writes]

s_noise_cancellation(st, chan, value, ioreturn) ==
    LET r == _request(chan, "SET", ZIK_AUDIO_NOISE_SET, BoolValue(value),
                      ioreturn)
    IN  [st |-> [st EXCEPT !.noise_cancellation = value],
         err |-> r.err, writes |-> r.writes]

\* Lines 399-403.
s_eq_preset_id(st, chan, value, ioreturn) ==
    LET r == _request(chan, "SET", ZIK_EQ_PRESET_SET, IntValue(value),
                      ioreturn)
    IN  [st |-> [st EXCEPT !.eq_preset_id = Some(value)],
         err |-> r.err, writes |-> r.writes]

\* Lines 414-418.
s_eq_enabled(st, chan, value, ioreturn) ==
    LET r == _request(chan, "SET", ZIK_EQ_ENABLE_SET, BoolValue(value),
                      ioreturn)
    IN  [st |-> [st EXCEPT !.eq_enabled = value],
         err |-> r.err, writes |-> r.writes]

(* ----------------------------- accessors ------------------------------- *)

\* preset_by_id, lines 420-423: the first preset whose id equals id_, or
\* None when the loop ends.  id_ is None or Some(integer), as s_eq_preset_id.
RECURSIVE preset_by_id_skips_first(_, _)
preset_by_id_skips_first(presets, id_) ==
    IF Len(presets) < 2 THEN None
    ELSE IF Some(presets[2][1]) = id_ THEN Some(presets[2])
    ELSE preset_by_id_skips_first(Tail(presets), id_)

RECURSIVE preset_by_id(_, _)
preset_by_id(presets, id_) ==
    IF presets = <<>> THEN None
    ELSE IF Some(Head(presets)[1]) = id_ THEN Some(Head(presets))
    ELSE preset_by_id(Tail(presets), id_)

\* s_eq_preset_name, lines 405-408.
s_eq_preset_name(st) ==
    LET preset == preset_by_id(st.eq_presets, st.eq_preset_id)
    IN  IF preset # None THEN Some(preset[1][2]) ELSE None

(* --------------------------- _handle_packet ---------------------------- *)

Outcome(st, e, w, c, s, p) ==
    [st |-> st, err |-> e, writes |-> w, calls |-> c, seen |-> s,
     parsed |-> p]

\* Lines 312-315: every handler of the set is called once with the engine.
call_handlers_stale(handlers, before, st) ==
    [calls |-> [h \in Observers |-> IF h \in handlers THEN 1 ELSE 0],
     seen |-> Some(before)]

call_handlers(handlers, before, st) ==
    [calls |-> [h \in Observers |-> IF h \in handlers THEN 1 ELSE 0],
     seen |-> Some(st)]

\* Lines 256-258.
notify_branch_dispatches(st, handlers, chan, body, ioreturn) ==
    IF "path" \notin body.has
    THEN Outcome(st, "KeyError", <<>>, NoCalls, None, TRUE)
    ELSE LET r == _request(chan, "GET", body.path, NoValue, ioreturn)
         IN  Outcome(st, r.err, r.writes,
                     call_handlers(handlers, st, st).calls, Some(st), TRUE)

notify_branch_silent(st, handlers, chan, body, ioreturn) ==
    IF "path" \notin body.has
    THEN Outcome(st, "KeyError", <<>>, NoCalls, None, TRUE)
    ELSE Outcome(st, "ok", <<>>, NoCalls, None, TRUE)

notify_branch(st, handlers, chan, body, ioreturn) ==
    IF "path" \notin body.has
    THEN Outcome(st, "KeyError", <<>>, NoCalls, None, TRUE)
    ELSE LET r == _request(chan, "GET", body.path, NoValue, ioreturn)
         IN  Outcome(st, r.err, r.writes, NoCalls, None, TRUE)

\* _handle_packet with the packet types read as messages and the outcome of
\* a document that is neither notify nor answer left open.
handle_packet_with(st, handlers, chan, pkt, ioreturn, types, unknown) ==
    LET h == unpack_header(pkt)
    IN  IF h.err # "ok"
        THEN Outcome(st, h.err, <<>>, NoCalls, None, FALSE)
        ELSE IF h.packet_type \in types
        THEN LET b == read_body(pkt, h.packet_size)
             IN  IF b.err # "ok"
                 THEN Outcome(st, b.err, <<>>, NoCalls, None, b.parsed)
                 ELSE IF b.body.root = "notify"
                 THEN notify_branch(st, handlers, chan, b.body, ioreturn)
                 ELSE IF b.body.root # "answer"
                 THEN Outcome(st, unknown, <<>>, NoCalls, None, TRUE)
                 ELSE LET a == answer_branch(st, b.body)
                      IN  IF a.err # "ok"
                          THEN Outcome(a.st, a.err, <<>>, NoCalls, None,
                                       TRUE)
                          ELSE LET c == call_handlers(handlers, st, a.st)
                               IN  Outcome(a.st, "ok", <<>>, c.calls,
                                           c.seen, TRUE)
        ELSE Outcome(st, "ok", <<>>, NoCalls, None, FALSE)

\* The document of unknown shape is skipped without an exception.
_handle_packet_skips_unknown(st, handlers, chan, pkt, ioreturn) ==
    handle_packet_with(st, handlers, chan, pkt, ioreturn, {TYPE_MESSAGE},
                       "ok")

\* The handshake acknowledgement falls through to the message branch.
_handle_packet_reads_ack(st, handlers, chan, pkt, ioreturn) ==
    handle_packet_with(st, handlers, chan, pkt, ioreturn,
                       {TYPE_HANDSHAKE, TYPE_MESSAGE}, "ZikProtocolError")

\* Lines 233-315.
_handle_packet(st, handlers, chan, pkt, ioreturn) ==
    LET h == unpack_header(pkt)
    IN  IF h.err # "ok"
        THEN Outcome(st, h.err, <<>>, NoCalls, None, FALSE)
        ELSE IF h.packet_type = TYPE_HANDSHAKE
        THEN Outcome(st, "ok", <<>>, NoCalls, None, FALSE)
        ELSE IF h.packet_type = TYPE_MESSAGE
        THEN LET b == read_body(pkt, h.packet_size)
             IN  IF b.err # "ok"
                 THEN Outcome(st, b.err, <<>>, NoCalls, None, b.parsed)
                 ELSE IF b.body.root = "notify"
                 THEN notify_branch(st, handlers, chan, b.body, ioreturn)
                 ELSE IF b.body.root # "answer"
                 THEN Outcome(st, "ZikProtocolError", <<>>, NoCalls, None,
                              TRUE)
                 ELSE LET a == answer_branch(st, b.body)
                      IN  IF a.err # "ok"
                          THEN Outcome(a.st, a.err, <<>>, NoCalls, None,
                                       TRUE)
                          ELSE LET c == call_handlers(handlers, st, a.st)
                               IN  Outcome(a.st, "ok", <<>>, c.calls,
                                           c.seen, TRUE)
        ELSE Outcome(st, "ok", <<>>, NoCalls, None, FALSE)

(* ------------------------------- inputs -------------------------------- *)

\* The two length bytes of an inbound buffer that declares n bytes.
BigEndian(n) == <<n \div 256, n % 256>>

Buffer(len, size, type, xml, xmllen, pad) ==
    [len |-> len, hdr |-> BigEndian(size), type |-> type, xml |-> xml,
     xmllen |-> xmllen, pad |-> pad]

NoPacket == Buffer(0, 0, 0, NotXml, 0, "none")

FullLen == HEADER_LEN + SUBHEADER_LEN + XmlLen

\* A 0x80 buffer that holds exactly the document and declares its length.
Framed(doc) == Buffer(FullLen, FullLen, TYPE_MESSAGE, doc, XmlLen, "none")

Answer(path, has) ==
    [Doc0 EXCEPT !.path = path, !.has = has \cup {"path"}, !.node = TRUE]

BatteryDoc(has, state, level) ==
    [Answer(ZIK_SYS_BATTERY_GET, has) EXCEPT !.state = state,
                                             !.level = level]

BatteryDocs ==
    {BatteryDoc({"state", "level"}, st, lv) :
        st \in {"charging", "in_use"},
        lv \in {<<>>, <<"4", "2">>, <<"a", "b", "c">>, <<"-", "1">>}}
    \cup {BatteryDoc({"state"}, st, <<>>) : st \in {"charging", "in_use"}}
    \cup {BatteryDoc({"level"}, "", <<"4", "2">>),
          [Answer(ZIK_SYS_BATTERY_GET, {}) EXCEPT !.node = FALSE]}

NoiseDocs ==
    {[Answer(ZIK_AUDIO_NOISE_GET, {"enabled"}) EXCEPT !.enabled = e] :
        e \in {"true", "false", "yes"}}
    \cup {Answer(ZIK_AUDIO_NOISE_GET, {})}

VersionDocs ==
    {[Answer(ZIK_SYS_VERSION_GET, {"version"}) EXCEPT !.version = v] :
        v \in {"1.0", "2.1"}}
    \cup {Answer(ZIK_SYS_VERSION_GET, {})}

SpecificModeDocs ==
    {[Answer(ZIK_AUDIO_SPECIFIC_MODE_GET, {"enabled"}) EXCEPT
        !.enabled = e] : e \in {"true", "false"}}

Preset(id, name) == [id |-> id, name |-> name]

PresetLists ==
    {<<>>,
     <<Preset(<<"0">>, "flat")>>,
     <<Preset(<<"2">>, "club"), Preset(<<"0">>, "flat")>>,
     <<Preset(<<"1">>, "pop"), Preset(<<"2">>, "club"),
       Preset(<<"1">>, "deep")>>,
     <<Preset(<<"x">>, "bad"), Preset(<<"1">>, "pop")>>}

PresetsDocs ==
    {[Answer(ZIK_EQ_PRESETS_GET, {}) EXCEPT !.presets = ps] :
        ps \in PresetLists}

EqDoc(has, enabled, preset_id) ==
    [Answer(ZIK_EQ_GET, has) EXCEPT !.enabled = enabled,
                                    !.preset_id = preset_id]

EqDocs ==
    {EqDoc({"enabled", "preset_id"}, "true", <<"0">>),
     EqDoc({"enabled", "preset_id"}, "true", <<"1">>),
     EqDoc({"enabled", "preset_id"}, "false", <<"2">>),
     EqDoc({"enabled", "preset_id"}, "true", <<"x">>),
     EqDoc({"enabled"}, "true", <<>>)}

\* Answers whose path has no branch, and an answer without a path.
OtherAnswerDocs ==
    {Answer(ZIK_AUDIO_NOISE_SET, {}), Answer(ZIK_SYS_DEVICE_TYPE_GET, {}),
     [Doc0 EXCEPT !.node = TRUE]}

NotifyDoc(path) ==
    [Doc0 EXCEPT !.root = "notify", !.has = {"path"}, !.path = path]

NotifyDocs ==
    {NotifyDoc(p) : p \in {ZIK_AUDIO_NOISE_GET, ZIK_SYS_BATTERY_GET,
                           ZIK_SYS_DEVICE_TYPE_GET}}
    \cup {[Doc0 EXCEPT !.root = "notify"]}

\* Buffers whose declared length and actual length disagree, buffers too
\* short for their headers, and buffers with bytes after the document.
OddlyFramed(doc) ==
    {Buffer(FullLen, FullLen + 1, TYPE_MESSAGE, doc, XmlLen, "none"),
     Buffer(FullLen, FullLen - 1, TYPE_MESSAGE, doc, XmlLen, "none"),
     Buffer(FullLen, HEADER_LEN, TYPE_MESSAGE, doc, XmlLen, "none"),
     Buffer(FullLen + 1, FullLen, TYPE_MESSAGE, doc, XmlLen, "space"),
     Buffer(FullLen + 1, FullLen, TYPE_MESSAGE, doc, XmlLen, "junk"),
     Buffer(FullLen + 1, FullLen + 1, TYPE_MESSAGE, doc, XmlLen, "space"),
     Buffer(FullLen + 1, FullLen + 1, TYPE_MESSAGE, doc, XmlLen, "junk")}

\* Buffers that are not a well-framed 0x80 message.
OtherBuffers ==
    {Buffer(n, 0, 0, NotXml, 0, "none") : n \in {0, 2}}
    \cup {Buffer(HEADER_LEN, HEADER_LEN, TYPE_HANDSHAKE, NotXml, 0, "none"),
          Buffer(HEADER_LEN, FullLen, TYPE_HANDSHAKE, NotXml, 0, "none"),
          Buffer(HEADER_LEN, HEADER_LEN, 1, NotXml, 0, "none"),
          Buffer(5, 5, TYPE_MESSAGE, NotXml, 0, "none")}

\* The buffers of Spec: battery answers, answers without a branch, notifies,
\* other documents, and every kind of framing.
Packets ==
    {Framed(d) : d \in BatteryDocs \cup OtherAnswerDocs \cup NotifyDocs
                       \cup {[Doc0 EXCEPT !.root = "error"], NotXml}}
    \cup OddlyFramed(BatteryDoc({"state", "level"}, "charging", <<>>))
    \cup {Buffer(FullLen + 1, FullLen, TYPE_MESSAGE,
                 NotifyDoc(ZIK_AUDIO_NOISE_GET), XmlLen, "space")}
    \cup OtherBuffers

\* The buffers of SpecAnswers: well-framed answers of the other five
\* endpoints.
AnswerPackets ==
    {Framed(d) : d \in NoiseDocs \cup VersionDocs \cup SpecificModeDocs
                       \cup PresetsDocs \cup EqDocs}

\* The buffers of SpecFields: answers of all six handled endpoints that
\* _handle_packet applies without an exception.
FieldPackets ==
    {Framed(d) :
        d \in {BatteryDoc({"state", "level"}, "charging", <<>>),
               BatteryDoc({"state", "level"}, "in_use", <<"4", "2">>),
               EqDoc({"enabled", "preset_id"}, "true", <<"0">>),
               EqDoc({"enabled", "preset_id"}, "false", <<"2">>)}
           \cup {n \in NoiseDocs : n.enabled \in {"true", "false"}}
           \cup {v \in VersionDocs : "version" \in v.has}
           \cup SpecificModeDocs
           \cup {p \in PresetsDocs :
                    /\ Len(p.presets) >= 2
                    /\ \A i \in DOMAIN p.presets :
                          p.presets[i].id[1] \in DigitSet}}

\* The IOReturn codes worth telling apart for a buffer: only a notify makes
\* _handle_packet write.
IOReturns(pkt) ==
    IF pkt.xml.root = "notify" THEN {kIOReturnSuccess, kIOReturnError}
    ELSE {kIOReturnSuccess}

(* ------------------------------- actions ------------------------------- *)

Op(name, pkt, value, h) ==
    [name |-> name, pkt |-> pkt, value |-> value, h |-> h]

\* What an operation leaves behind.
Finish(o, st, chan, e, w, c, s, p) ==
    /\ Store(st)
    /\ _channel' = chan
    /\ op' = o
    /\ err' = e
    /\ writes' = w
    /\ calls' = c
    /\ seen' = s
    /\ parsed' = p
    /\ first_write' = IF first_write = None /\ w # <<>> THEN Some(w[1])
                      ELSE first_write

\* __init__, lines 104-117.
Constructed ==
    /\ _s_version = None
    /\ _s_battery_level = 0
    /\ _s_battery_state = IN_USE
    /\ _s_noise_cancellation = FALSE
    /\ _s_eq_presets = <<>>
    /\ _s_eq_preset_id = None
    /\ _s_eq_enabled = FALSE
    /\ _s_specific_mode = None
    /\ _handlers = {}
    /\ _channel = None
    /\ op = Op("init", NoPacket, NoValue, 0)
    /\ err = "ok"
    /\ writes = <<>>
    /\ calls = NoCalls
    /\ seen = None
    /\ parsed = FALSE
    /\ first_write = None
    /\ iocodes = <<>>

\* The engine on its own: no headphones are modelled, buffers come from the
\* input sets.
Init ==
    /\ Constructed
    /\ zik_noise = FALSE
    /\ zik_applies = TRUE
    /\ to_zik = <<>>
    /\ to_host = <<>>
    /\ sets_left = 0

\* register, lines 335-340.
register(handlers, h) == handlers \cup {h}

Register ==
    \E h \in Observers :
        /\ _handlers' = register(_handlers, h)
        /\ Finish(Op("register", NoPacket, NoValue, h), State, _channel,
                  "ok", <<>>, NoCalls, None, FALSE)
        /\ iocodes' = <<>>
        /\ UNCHANGED zik

\* unregister, lines 342-346: set.remove raises KeyError for a stranger.
Unregister ==
    \E h \in Observers :
        /\ _handlers' = _handlers \ {h}
        /\ Finish(Op("unregister", NoPacket, NoValue, h), State, _channel,
                  IF h \in _handlers THEN "ok" ELSE "KeyError",
                  <<>>, NoCalls, None, FALSE)
        /\ iocodes' = <<>>
        /\ UNCHANGED zik

Connect ==
    \E stage \in {"no_port", "not_opened", "opened"} :
        \E ioreturns \in
               IF stage = "opened"
               THEN WriteOutcomes(1 + Len(StatusEndpoints))
               ELSE {[i \in 1 .. 1 + Len(StatusEndpoints) |->
                        kIOReturnSuccess]} :
            LET r == connect(_channel, stage, ioreturns)
            IN  /\ Finish(Op("connect", NoPacket, NoValue, 0), State,
                          r.chan, r.err, r.writes, NoCalls, None, FALSE)
                /\ iocodes' = ioreturns
                /\ UNCHANGED _handlers
                /\ UNCHANGED zik

\* update_status() is called by connect() and, like the setters, by callers
\* that hold a connected engine: app.py registers, connects (lines 14-16) and
\* only then builds the menu whose callbacks use the setters (lines 76-87).
UpdateStatus ==
    /\ _channel # None
    /\ \E ioreturns \in WriteOutcomes(Len(StatusEndpoints)) :
        LET r == update_status(_channel, ioreturns)
        IN  /\ Finish(Op("update_status", NoPacket, NoValue, 0), State,
                      _channel, r.err, r.writes, NoCalls, None, FALSE)
            /\ iocodes' = ioreturns
            /\ UNCHANGED _handlers
            /\ UNCHANGED zik

SetNoiseCancellation ==
    /\ _channel # None
    /\ \E value \in BOOLEAN, ioreturn \in {kIOReturnSuccess, kIOReturnError} :
        LET r == s_noise_cancellation(State, _channel, value, ioreturn)
        IN  /\ Finish(Op("s_noise_cancellation", NoPacket, BoolValue(value),
                         0),
                      r.st, _channel, r.err, r.writes, NoCalls, None, FALSE)
            /\ iocodes' = <<ioreturn>>
            /\ UNCHANGED _handlers
            /\ UNCHANGED zik

SetEqEnabled ==
    /\ _channel # None
    /\ \E value \in BOOLEAN, ioreturn \in {kIOReturnSuccess, kIOReturnError} :
        LET r == s_eq_enabled(State, _channel, value, ioreturn)
        IN  /\ Finish(Op("s_eq_enabled", NoPacket, BoolValue(value), 0),
                      r.st, _channel, r.err, r.writes, NoCalls, None, FALSE)
            /\ iocodes' = <<ioreturn>>
            /\ UNCHANGED _handlers
            /\ UNCHANGED zik

SetEqPresetId ==
    /\ _channel # None
    /\ \E value \in 0 .. MaxPresetId,
          ioreturn \in {kIOReturnSuccess, kIOReturnError} :
        LET r == s_eq_preset_id(State, _channel, value, ioreturn)
        IN  /\ Finish(Op("s_eq_preset_id", NoPacket, IntValue(value), 0),
                      r.st, _channel, r.err, r.writes, NoCalls, None, FALSE)
            /\ iocodes' = <<ioreturn>>
            /\ UNCHANGED _handlers
            /\ UNCHANGED zik

\* rfcommChannelData_data_length_, lines 434-440: the delegate that connect()
\* hands to the opened channel passes each buffer to _handle_packet.
Deliver(pkts) ==
    /\ _channel # None
    /\ \E pkt \in pkts :
        \E ioreturn \in IOReturns(pkt) :
            LET r == _handle_packet(State, _handlers, _channel, pkt,
                                    ioreturn)
            IN  /\ Finish(Op("_handle_packet", pkt, NoValue, 0), r.st,
                          _channel, r.err, r.writes, r.calls, r.seen,
                          r.parsed)
                /\ iocodes' = <<ioreturn>>
                /\ UNCHANGED _handlers
                /\ UNCHANGED zik

HandlePacket == Deliver(Packets)

HandleAnswer == Deliver(AnswerPackets)

Next ==
    \/ Register
    \/ Unregister
    \/ Connect
    \/ UpdateStatus
    \/ SetNoiseCancellation
    \/ SetEqEnabled
    \/ SetEqPresetId
    \/ HandlePacket

Spec == Init /\ [][Next]_vars

\* The engine fed with the answers of the noise-cancellation, version,
\* specific-mode, presets-list and equalizer endpoints.
NextAnswers ==
    \/ Connect
    \/ SetNoiseCancellation
    \/ SetEqEnabled
    \/ SetEqPresetId
    \/ HandleAnswer

SpecAnswers == Init /\ [][NextAnswers]_vars

HandleField == Deliver(FieldPackets)

\* The engine with its observers, fed with the answers of FieldPackets.
NextFields ==
    \/ Register
    \/ Unregister
    \/ Connect
    \/ UpdateStatus
    \/ HandleField

SpecFields == Init /\ [][NextFields]_vars

(* ----------------------- engine and headphones ------------------------- *)

\* The document the headphones answer to a GET of a status endpoint; only
\* the noise-cancellation value varies.
ZikAnswer(path, noise) ==
    IF path = ZIK_AUDIO_NOISE_GET
    THEN [Answer(ZIK_AUDIO_NOISE_GET, {"enabled"}) EXCEPT
            !.enabled = IF noise THEN "true" ELSE "false"]
    ELSE IF path = ZIK_SYS_BATTERY_GET
    THEN BatteryDoc({"state", "level"}, "in_use", <<"4", "2">>)
    ELSE IF path = ZIK_SYS_VERSION_GET
    THEN [Answer(ZIK_SYS_VERSION_GET, {"version"}) EXCEPT !.version = "1.0"]
    ELSE IF path = ZIK_AUDIO_SPECIFIC_MODE_GET
    THEN [Answer(ZIK_AUDIO_SPECIFIC_MODE_GET, {"enabled"}) EXCEPT
            !.enabled = "false"]
    ELSE IF path = ZIK_EQ_GET
    THEN EqDoc({"enabled", "preset_id"}, "false", <<"0">>)
    ELSE [Answer(ZIK_EQ_PRESETS_GET, {}) EXCEPT
            !.presets = <<Preset(<<"2">>, "club"), Preset(<<"0">>, "flat")>>]

\* What the headphones do with one frame: the new noise-cancellation value
\* and the buffers sent back.  A handshake is acknowledged, a GET is
\* answered with the current value, a SET of noise cancellation is applied
\* and echoed as a notify of the GET path, or dropped without a word.
zik_reply(frame, noise, applies) ==
    IF frame.type = TYPE_HANDSHAKE
    THEN [noise |-> noise,
          out |-> <<Buffer(HEADER_LEN, HEADER_LEN, TYPE_HANDSHAKE, NotXml,
                           0, "none")>>]
    ELSE IF \E i \in DOMAIN StatusEndpoints :
                frame.body = "GET " \o StatusEndpoints[i]
    THEN LET i == CHOOSE i \in DOMAIN StatusEndpoints :
                      frame.body = "GET " \o StatusEndpoints[i]
         IN  [noise |-> noise,
              out |-> <<Framed(ZikAnswer(StatusEndpoints[i], noise))>>]
    ELSE IF \E v \in BOOLEAN :
                frame.body = "SET " \o ZIK_AUDIO_NOISE_SET \o "?arg="
                             \o (IF v THEN "true" ELSE "false")
    THEN IF applies
         THEN [noise |-> (frame.body = "SET " \o ZIK_AUDIO_NOISE_SET
                                       \o "?arg=true"),
               out |-> <<Framed(NotifyDoc(ZIK_AUDIO_NOISE_GET))>>]
         ELSE [noise |-> noise, out |-> <<>>]
    ELSE [noise |-> noise, out |-> <<>>]

\* The engine after construction, and headphones that hold some value and
\* either apply or drop SET requests.
InitZik ==
    /\ Constructed
    /\ zik_noise \in BOOLEAN
    /\ zik_applies \in BOOLEAN
    /\ to_zik = <<>>
    /\ to_host = <<>>
    /\ sets_left = MaxSets

\* connect() on a channel that opens and takes every write.
ZikConnect ==
    /\ _channel = None
    /\ LET codes == [i \in 1 .. 1 + Len(StatusEndpoints) |->
                        kIOReturnSuccess]
           r == connect(_channel, "opened", codes)
       IN  /\ Finish(Op("connect", NoPacket, NoValue, 0), State, r.chan,
                     r.err, r.writes, NoCalls, None, FALSE)
           /\ iocodes' = codes
           /\ to_zik' = to_zik \o r.writes
    /\ UNCHANGED <<_handlers, zik_noise, zik_applies, to_host, sets_left>>

\* The user switches noise cancellation.
ZikSetNoise ==
    /\ _channel # None
    /\ sets_left > 0
    /\ \E value \in BOOLEAN :
        LET r == s_noise_cancellation(State, _channel, value,
                                      kIOReturnSuccess)
        IN  /\ Finish(Op("s_noise_cancellation", NoPacket, BoolValue(value),
                         0),
                      r.st, _channel, r.err, r.writes, NoCalls, None, FALSE)
            /\ to_zik' = to_zik \o r.writes
    /\ iocodes' = <<kIOReturnSuccess>>
    /\ sets_left' = sets_left - 1
    /\ UNCHANGED <<_handlers, zik_noise, zik_applies, to_host>>

\* The headphones read the oldest frame.
ZikStep ==
    /\ to_zik # <<>>
    /\ \E r \in {zik_reply(Head(to_zik), zik_noise, zik_applies)} :
           /\ zik_noise' = r.noise
           /\ to_host' = to_host \o r.out
    /\ to_zik' = Tail(to_zik)
    /\ UNCHANGED <<fields, _handlers, _channel, op, err, writes, calls,
                   seen, parsed, first_write, iocodes, zik_applies,
                   sets_left>>

\* rfcommChannelData_data_length_, lines 434-440: the channel delivers the
\* oldest buffer to _handle_packet.
ChannelData ==
    /\ _channel # None
    /\ to_host # <<>>
    /\ \E r \in {_handle_packet(State, _handlers, _channel, Head(to_host),
                                 kIOReturnSuccess)} :
           /\ Finish(Op("_handle_packet", Head(to_host), NoValue, 0), r.st,
                     _channel, r.err, r.writes, r.calls, r.seen, r.parsed)
           /\ to_zik' = to_zik \o r.writes
    /\ iocodes' = <<kIOReturnSuccess>>
    /\ to_host' = Tail(to_host)
    /\ UNCHANGED <<_handlers, zik_noise, zik_applies, sets_left>>

NextZik ==
    \/ ZikConnect
    \/ ZikSetNoise
    \/ ZikStep
    \/ ChannelData

\* Every frame written is read by the headphones and every buffer they send
\* is delivered, in order.
SpecZik ==
    /\ InitZik
    /\ [][NextZik]_vars
    /\ WF_vars(ZikStep)
    /\ WF_vars(ChannelData)

(* ------------------------------- claims -------------------------------- *)

\* A 0x80 buffer that holds exactly one well-formed document after its seven
\* header bytes and declares its own length.
WellFramed(pkt) ==
    /\ pkt.type = TYPE_MESSAGE
    /\ pkt.xml.wf
    /\ pkt.len = HEADER_LEN + SUBHEADER_LEN + pkt.xmllen
    /\ pkt.hdr = BigEndian(pkt.len)
    /\ pkt.pad = "none"

\* The request buffer the wire format prescribes for a message text.
ExpectedRequest(text) ==
    [hdr |-> BigEndian(Len(text) + 3), type |-> 128, body |-> text]

\* The indicator of the registry: one call for each registered observer.
OncePerObserver(handlers) ==
    [h \in Observers |-> IF h \in handlers THEN 1 ELSE 0]

IsNotify(o) ==
    /\ o.name = "_handle_packet"
    /\ WellFramed(o.pkt)
    /\ o.pkt.xml.root = "notify"
    /\ "path" \in o.pkt.xml.has

IsAnswer(o) ==
    /\ o.name = "_handle_packet"
    /\ WellFramed(o.pkt)
    /\ o.pkt.xml.root = "answer"
    /\ "path" \in o.pkt.xml.has

IsBatteryAnswer(o) ==
    /\ IsAnswer(o)
    /\ o.pkt.xml.path = "/api/system/battery/get"
    /\ o.pkt.xml.node
    /\ "state" \in o.pkt.xml.has

\* C1: handling a notify with path P hands exactly one buffer to the
\* channel, the request "GET P"; no _s_ field changes and no observer is
\* called, whatever the state before and whether or not the write succeeds.
C1_NotifyRequestsGet ==
    [][IsNotify(op') =>
          /\ writes' = <<ExpectedRequest("GET " \o op'.pkt.xml.path)>>
          /\ StateNext = State
          /\ calls' = NoCalls
          /\ seen' = None
          /\ _handlers' = _handlers]_vars

C1_Witness ==
    /\ IsNotify(op)
    /\ op.pkt.xml.path = "/api/audio/noise_cancellation/enabled/get"
    /\ Len(writes) = 1
    /\ writes[1].body = "GET /api/audio/noise_cancellation/enabled/get"
    /\ err = "ok"
    /\ _handlers # {}
    /\ _s_battery_state = CHARGING
    /\ _s_noise_cancellation

\* C2: a battery answer whose state is "charging" leaves battery_state
\* CHARGING and battery_level -1, whether the level attribute is empty,
\* numeric, not a number or missing.
C2_ChargingAnswer ==
    (IsBatteryAnswer(op) /\ op.pkt.xml.state = "charging") =>
        /\ err = "ok"
        /\ _s_battery_state = 20
        /\ _s_battery_level = 0 - 1

C2_Witness ==
    /\ IsBatteryAnswer(op)
    /\ op.pkt.xml.state = "charging"
    /\ "level" \notin op.pkt.xml.has
    /\ _s_battery_state = 20
    /\ _s_battery_level = 0 - 1

\* Decimal texts and the integers they denote.
DecimalTexts == {<<(<<"4", "2">>), 42>>, <<(<<"-", "1">>), 0 - 1>>}

\* C3: a battery answer whose state is present and not "charging" leaves
\* CALC and level 0 when the level attribute is empty, and IN_USE and level
\* n when the level attribute is the decimal text of n.
C3_InUseAnswer ==
    (/\ IsBatteryAnswer(op)
     /\ op.pkt.xml.state # "charging"
     /\ "level" \in op.pkt.xml.has) =>
        /\ op.pkt.xml.level = <<>> =>
              /\ err = "ok"
              /\ _s_battery_state = 30
              /\ _s_battery_level = 0
        /\ \A t \in DecimalTexts :
              op.pkt.xml.level = t[1] =>
                  /\ err = "ok"
                  /\ _s_battery_state = 10
                  /\ _s_battery_level = t[2]

C3_Witness ==
    /\ IsBatteryAnswer(op)
    /\ op.pkt.xml.state = "in_use"
    /\ op.pkt.xml.level = <<"4", "2">>
    /\ _s_battery_state = 10
    /\ _s_battery_level = 42

\* C4: register adds the observer to the registry and unregister removes
\* it, so the registry is a set; an answer handled without an exception
\* calls each observer of the registry once and no other observer, and the
\* observers are called with the state the answer has left.
C4_DispatchOncePerObserver ==
    [][/\ op'.name = "register" =>
              _handlers' = _handlers \cup {op'.h}
       /\ op'.name = "unregister" =>
              _handlers' = _handlers \ {op'.h}
       /\ (op'.name = "_handle_packet" /\ op'.pkt.type = 128
           /\ op'.pkt.xml.root = "answer" /\ err' = "ok") =>
              /\ _handlers' = _handlers
              /\ calls' = OncePerObserver(_handlers)
              /\ seen' = Some(StateNext)]_vars

C4_Witness ==
    /\ IsBatteryAnswer(op)
    /\ err = "ok"
    /\ _handlers = Observers
    /\ \A h \in Observers : calls[h] = 1
    /\ seen = Some(State)
    /\ _s_battery_state = 20

\* C5: an answer whose path is none of the six handled paths raises
\* nothing, changes no _s_ field, writes nothing, and still calls each
\* registered observer once.
C5_UnknownPathAnswer ==
    [][(IsAnswer(op') /\ op'.pkt.xml.path \notin HandledPaths) =>
          /\ err' = "ok"
          /\ StateNext = State
          /\ writes' = <<>>
          /\ _handlers' = _handlers
          /\ calls' = OncePerObserver(_handlers)
          /\ seen' = Some(State)]_vars

C5_Witness ==
    /\ IsAnswer(op)
    /\ op.pkt.xml.path = "/api/system/device_type/get"
    /\ err = "ok"
    /\ writes = <<>>
    /\ _handlers = {1}
    /\ calls[1] = 1
    /\ _s_battery_state = 30

\* A buffer shorter than its three header bytes, or one whose declared
\* total length is not its actual length.
BadlyFramed(pkt) ==
    pkt.len < 3 \/ pkt.hdr # BigEndian(pkt.len)

\* C6: a buffer that is shorter than three bytes or whose declared length
\* differs from its actual length fails with a frame-level error before
\* xmltodict.parse is called; no _s_ field changes, nothing is written and
\* no observer is called.
C6_BadFrameRejected ==
    [][(op'.name = "_handle_packet" /\ BadlyFramed(op'.pkt)) =>
          /\ err' = "struct.error"
          /\ ~parsed'
          /\ StateNext = State
          /\ writes' = <<>>
          /\ calls' = NoCalls]_vars

\* C7: every buffer handed to the channel carries in its first two bytes,
\* most significant first, its own total length, and every buffer built by
\* _request has the type byte 0x80 and is three bytes longer than its
\* message.
C7_HeaderIsLength ==
    \A i \in DOMAIN writes :
        /\ unpack_H(writes[i].hdr) = FrameLen(writes[i])
        /\ Len(writes[i].hdr) = 2
        /\ writes[i].body # "" =>
              /\ writes[i].type = 128
              /\ unpack_H(writes[i].hdr) = Len(writes[i].body) + 3

C7_Witness ==
    /\ op.name = "s_eq_preset_id"
    /\ op.value.i = 2
    /\ Len(writes) = 1
    /\ writes[1].body = "SET /api/audio/equalizer/preset_id/set?arg=2"
    /\ writes[1].hdr = <<0, 47>>
    /\ writes[1].type = 128

PresetIds == {None} \cup {Some(i) : i \in 0 .. MaxPresetId}

\* Positions of the presets whose id is id_.
Matches(presets, id_) ==
    {i \in DOMAIN presets : Some(presets[i][1]) = id_}

\* C8: preset_by_id(id) is None when no entry of eq_presets has that id and
\* otherwise the (first) entry with that id; s_eq_preset_name is that
\* entry's name, and None when eq_preset_id is unset or matches no entry.
C8_PresetLookup ==
    /\ \A id_ \in PresetIds :
          LET m == Matches(_s_eq_presets, id_)
              r == preset_by_id(_s_eq_presets, id_)
          IN  /\ m = {} => r = None
              /\ m # {} =>
                    /\ r # None
                    /\ \E i \in m : /\ r = Some(_s_eq_presets[i])
                                    /\ \A j \in m : i <= j
    /\ LET m == Matches(_s_eq_presets, _s_eq_preset_id)
       IN  /\ (_s_eq_preset_id = None \/ m = {}) =>
                 s_eq_preset_name(State) = None
           /\ m # {} =>
                 \E i \in m : /\ s_eq_preset_name(State)
                                   = Some(_s_eq_presets[i][2])
                              /\ \A j \in m : i <= j

\* The equalizer answer has arrived, the presets list has not.
C8_Witness ==
    /\ op.name = "_handle_packet"
    /\ op.pkt.xml.path = "/api/audio/equalizer/get"
    /\ err = "ok"
    /\ _s_eq_preset_id = Some(2)
    /\ _s_eq_presets = <<>>
    /\ s_eq_preset_name(State) = None

\* What connect() writes when every write succeeds.
ConnectWrites ==
    <<[hdr |-> <<0, 3>>, type |-> 0, body |-> ""],
      ExpectedRequest("GET /api/software/version/get"),
      ExpectedRequest("GET /api/system/battery/get"),
      ExpectedRequest("GET /api/audio/noise_cancellation/enabled/get"),
      ExpectedRequest("GET /api/audio/specific_mode/enabled/get"),
      ExpectedRequest("GET /api/audio/equalizer/get"),
      ExpectedRequest("GET /api/audio/equalizer/presets_list/get")>>

IsPrefix(a, b) == Len(a) <= Len(b) /\ a = SubSeq(b, 1, Len(a))

\* C9: connect() hands the three-byte handshake to the channel first and
\* once, then the six GET requests in the order version, battery,
\* noise cancellation, specific mode, equalizer, presets list; a failing
\* write ends the sequence there.  No inbound buffer is handled in between:
\* no _s_ field changes and no observer is called.  The first buffer the
\* channel ever receives is the handshake.
C9_ConnectSequence ==
    [][/\ op'.name = "connect" =>
              /\ IsPrefix(writes', ConnectWrites)
              /\ err' = "ok" => writes' = ConnectWrites
              /\ (err' # "ok" /\ _channel' # _channel) => writes' # <<>>
              /\ StateNext = State
              /\ calls' = NoCalls
              /\ _handlers' = _handlers
       /\ writes' # <<>> => first_write' = Some(ConnectWrites[1])]_vars

C9_Witness ==
    /\ op.name = "connect"
    /\ err = "ok"
    /\ writes = ConnectWrites
    /\ _handlers # {}

\* The field a setter stores into, and the endpoint it requests.
SetterNames == {"s_noise_cancellation", "s_eq_enabled", "s_eq_preset_id"}

SetterEndpoint(name) ==
    IF name = "s_noise_cancellation"
    THEN "/api/audio/noise_cancellation/enabled/set"
    ELSE IF name = "s_eq_enabled"
    THEN "/api/audio/equalizer/enabled/set"
    ELSE "/api/audio/equalizer/preset_id/set"

\* The state a setter must leave: its own field holds the value.
AfterSetter(st, o) ==
    IF o.name = "s_noise_cancellation"
    THEN [st EXCEPT !.noise_cancellation = o.value.b]
    ELSE IF o.name = "s_eq_enabled"
    THEN [st EXCEPT !.eq_enabled = o.value.b]
    ELSE [st EXCEPT !.eq_preset_id = Some(o.value.i)]

\* Texts a SET request may carry as its argument.
ArgTexts == {"true", "false"} \cup {str(i) : i \in 0 .. MaxPresetId}

\* C10: a setter stores the value in its own field and hands exactly one
\* buffer to the channel, a SET request for its endpoint; it changes no
\* other field and calls no observer; when the write fails, ZikDeviceError
\* is raised and the field keeps the stored value.
C10_SetterStoresThenWrites ==
    [][op'.name \in SetterNames =>
          /\ StateNext = AfterSetter(State, op')
          /\ Len(writes') = 1
          /\ \E a \in ArgTexts :
                writes'[1] = ExpectedRequest(
                    "SET " \o SetterEndpoint(op'.name) \o "?arg=" \o a)
          /\ op'.value.kind = "bool" =>
                writes'[1].body =
                    "SET " \o SetterEndpoint(op'.name) \o "?arg="
                    \o (IF op'.value.b THEN "true" ELSE "false")
          /\ err' \in {"ok", "ZikDeviceError"}
          /\ calls' = NoCalls
          /\ seen' = None
          /\ _handlers' = _handlers]_vars

\* The write failed and the optimistic value stays.
C10_Witness ==
    /\ op.name = "s_noise_cancellation"
    /\ op.value.b
    /\ err = "ZikDeviceError"
    /\ Len(writes) = 1
    /\ _s_noise_cancellation
    /\ _s_battery_state = 20

\* C11: the message built by _request is "METHOD endpoint" when no value is
\* given, ends in "?arg=true" or "?arg=false" for a boolean, and in "?arg="
\* followed by the decimal digits of n for an integer n, 0 and 1 included.
C11_ArgumentText ==
    /\ (op.name = "s_eq_preset_id" /\ writes # <<>>) =>
          writes[1].body =
              "SET /api/audio/equalizer/preset_id/set?arg="
              \o str(op.value.i)
    /\ (op.name \in {"s_noise_cancellation", "s_eq_enabled"}
        /\ writes # <<>>) =>
          writes[1].body =
              "SET " \o SetterEndpoint(op.name) \o "?arg="
              \o (IF op.value.b THEN "true" ELSE "false")
    /\ op.name = "update_status" =>
          \A i \in DOMAIN writes : writes[i].body = ConnectWrites[i + 1].body

IsOtherRoot(o) ==
    /\ o.name = "_handle_packet"
    /\ WellFramed(o.pkt)
    /\ o.pkt.xml.root \notin {"notify", "answer"}

\* C12: a 0x80 packet whose document has neither a notify nor an answer
\* root raises ZikProtocolError and is dropped: no _s_ field changes, nothing
\* is written, no observer is called, the channel and the registry stay, and
\* a battery answer handled right after it is applied as usual.
C12_UnknownShapeDropped ==
    [][/\ IsOtherRoot(op') =>
              /\ err' = "ZikProtocolError"
              /\ StateNext = State
              /\ writes' = <<>>
              /\ calls' = NoCalls
              /\ seen' = None
              /\ _channel' = _channel
              /\ _handlers' = _handlers
       /\ (IsOtherRoot(op) /\ IsBatteryAnswer(op')
           /\ op'.pkt.xml.state = "charging") =>
              /\ err' = "ok"
              /\ _s_battery_state' = 20
              /\ calls' = OncePerObserver(_handlers)]_vars

C12_Witness ==
    /\ IsOtherRoot(op)
    /\ op.pkt.xml.root = "error"
    /\ err = "ZikProtocolError"
    /\ _handlers # {}
    /\ _s_battery_state = 20
    /\ _channel # None

IsHandshakeAck(o) ==
    /\ o.name = "_handle_packet"
    /\ o.pkt.len >= 3
    /\ o.pkt.type = 0

\* C13: a packet of type 0x00 changes no _s_ field, writes nothing and calls
\* no observer, whatever the state.
C13_HandshakeAckIgnored ==
    [][IsHandshakeAck(op') =>
          /\ err' = "ok"
          /\ StateNext = State
          /\ writes' = <<>>
          /\ calls' = NoCalls
          /\ seen' = None
          /\ ~parsed'
          /\ _handlers' = _handlers]_vars

C13_Witness ==
    /\ IsHandshakeAck(op)
    /\ op.pkt.hdr = <<0, 3>>
    /\ err = "ok"
    /\ _handlers # {}
    /\ _s_battery_state = 20
    /\ _s_noise_cancellation

\* C14: a packet whose handling raises leaves the battery pair
\* (battery_state, battery_level) and the equalizer pair (eq_enabled,
\* eq_preset_id) as they were: no group is applied in part.
C14_NoPartialUpdate ==
    [][(op'.name = "_handle_packet" /\ err' # "ok") =>
          /\ <<_s_battery_state, _s_battery_level>>'
                = <<_s_battery_state, _s_battery_level>>
          /\ <<_s_eq_enabled, _s_eq_preset_id>>'
                = <<_s_eq_enabled, _s_eq_preset_id>>]_vars

\* Text that is no integer for int(): it holds a character that is neither
\* a digit, a sign nor a blank.
NotAnInteger(t) ==
    \E i \in DOMAIN t : t[i] \notin DigitSet \cup {"+", "-", " "}

\* An answer of a handled endpoint with a numeric field that is no integer
\* or a boolean field that is neither "true" nor "false".
HasBadField(d) ==
    \/ /\ d.path = "/api/system/battery/get"
       /\ {"state", "level"} \subseteq d.has
       /\ d.state # "charging"
       /\ NotAnInteger(d.level)
    \/ /\ d.path \in {"/api/audio/noise_cancellation/enabled/get",
                      "/api/audio/specific_mode/enabled/get"}
       /\ "enabled" \in d.has
       /\ d.enabled \notin {"true", "false"}
    \/ /\ d.path = "/api/audio/equalizer/get"
       /\ {"enabled", "preset_id"} \subseteq d.has
       /\ (d.enabled \notin {"true", "false"} \/ NotAnInteger(d.preset_id))
    \/ /\ d.path = "/api/audio/equalizer/presets_list/get"
       /\ \E i \in DOMAIN d.presets : NotAnInteger(d.presets[i].id)

\* C15: such an answer fails with ZikProtocolError instead of storing a
\* default value.
C15_ParseFailureIsProtocolError ==
    (IsAnswer(op) /\ op.pkt.xml.node /\ HasBadField(op.pkt.xml)) =>
        err = "ZikProtocolError"

IsPresetsAnswer(o) ==
    /\ IsAnswer(o)
    /\ o.pkt.xml.path = "/api/audio/equalizer/presets_list/get"
    /\ o.pkt.xml.node
    /\ \A i \in DOMAIN o.pkt.xml.presets :
          /\ Len(o.pkt.xml.presets[i].id) = 1
          /\ o.pkt.xml.presets[i].id[1] \in DigitSet

\* The pairs (id, name) of a list of preset entries with one-digit ids.
PresetPairs(ps) ==
    [i \in DOMAIN ps |-> <<DigitValue(ps[i].id[1]), ps[i].name>>]

\* C16: a presets-list answer with n entries, n = 0, 1, 2, ..., sets
\* eq_presets to the n pairs (id, name) in the order received and calls the
\* observers.
C16_PresetsListStored ==
    IsPresetsAnswer(op) =>
        /\ err = "ok"
        /\ _s_eq_presets = PresetPairs(op.pkt.xml.presets)
        /\ calls = OncePerObserver(_handlers)

\* C17: battery_state is CHARGING exactly when battery_level is -1, and
\* battery_state CALC implies battery_level 0.
C17_BatterySentinel ==
    /\ _s_battery_state = 20 <=> _s_battery_level = 0 - 1
    /\ _s_battery_state = 30 => _s_battery_level = 0

\* The writes before the first refusal, out of the codes the channel has.
RECURSIVE LeadingOk(_)
LeadingOk(codes) ==
    IF codes = <<>> \/ Head(codes) # 0 THEN 0
    ELSE 1 + LeadingOk(Tail(codes))

\* What reaches the channel of a planned sequence of buffers: every buffer
\* once, up to and including the first one the channel refuses.
Sent(planned, codes) ==
    SubSeq(planned, 1,
           IF LeadingOk(codes) + 1 < Len(planned) THEN LeadingOk(codes) + 1
           ELSE Len(planned))

Refused(planned, codes) == LeadingOk(codes) < Len(planned)

\* The result of an operation that plans these buffers.
SingleAttempt(planned, codes) ==
    /\ writes = Sent(planned, codes)
    /\ err = IF Refused(planned, codes) THEN "ZikDeviceError" ELSE "ok"

\* C18: nothing is written twice.  connect() on an opened channel writes one
\* handshake and the six GET requests, update_status() the six GET requests,
\* a setter one SET request, a handled notify one GET request; every other
\* operation writes nothing.  The first write the channel refuses raises
\* ZikDeviceError, is not repeated, and the requests after it are not sent.
C18_SingleAttempt ==
    /\ op.name = "connect" =>
          \/ writes = <<>> /\ err = "ZikDeviceError"
          \/ SingleAttempt(ConnectWrites, iocodes)
    /\ op.name = "update_status" =>
          SingleAttempt(Tail(ConnectWrites), iocodes)
    /\ op.name \in SetterNames =>
          \E a \in ArgTexts :
              SingleAttempt(
                  <<ExpectedRequest("SET " \o SetterEndpoint(op.name)
                                    \o "?arg=" \o a)>>, iocodes)
    /\ IsNotify(op) =>
          SingleAttempt(<<ExpectedRequest("GET " \o op.pkt.xml.path)>>,
                        iocodes)
    /\ (op.name = "_handle_packet" /\ ~IsNotify(op)) =>
          \/ writes = <<>>
          \/ /\ op.pkt.xml.root = "notify"
             /\ writes = <<ExpectedRequest("GET " \o op.pkt.xml.path)>>
    /\ op.name \in {"init", "register", "unregister"} => writes = <<>>

\* The third request of update_status() is refused: three requests were
\* written and the last three were not.
C18_Witness ==
    /\ op.name = "update_status"
    /\ err = "ZikDeviceError"
    /\ LeadingOk(iocodes) = 2
    /\ Len(writes) = 3

\* The fields an answer of a handled endpoint carries, written over st.
Carried(st, d) ==
    IF d.path = "/api/system/battery/get"
    THEN IF d.state = "charging"
         THEN [st EXCEPT !.battery_state = 20, !.battery_level = 0 - 1]
         ELSE IF d.level = <<>>
         THEN [st EXCEPT !.battery_state = 30, !.battery_level = 0]
         ELSE [st EXCEPT !.battery_state = 10,
                         !.battery_level =
                             (CHOOSE t \in DecimalTexts : t[1] = d.level)[2]]
    ELSE IF d.path = "/api/audio/noise_cancellation/enabled/get"
    THEN [st EXCEPT !.noise_cancellation = (d.enabled = "true")]
    ELSE IF d.path = "/api/software/version/get"
    THEN [st EXCEPT !.version = <<d.version>>]
    ELSE IF d.path = "/api/audio/specific_mode/enabled/get"
    THEN [st EXCEPT !.specific_mode = <<d.enabled = "true">>]
    ELSE IF d.path = "/api/audio/equalizer/get"
    THEN [st EXCEPT !.eq_enabled = (d.enabled = "true"),
                    !.eq_preset_id = <<DigitValue(d.preset_id[1])>>]
    ELSE [st EXCEPT !.eq_presets = PresetPairs(d.presets)]

HandledEndpoints ==
    {"/api/system/battery/get", "/api/audio/noise_cancellation/enabled/get",
     "/api/software/version/get", "/api/audio/specific_mode/enabled/get",
     "/api/audio/equalizer/get", "/api/audio/equalizer/presets_list/get"}

\* C19: an answer of a handled endpoint that is handled without an
\* exception writes the values it carries over its own field group, whatever
\* the fields held before and whatever was requested before, and leaves the
\* other fields and the registry as they were; update_status(), register()
\* and unregister() change no field.
C19_AnswerOverwritesOwnGroup ==
    [][/\ (/\ IsAnswer(op')
           /\ op'.pkt.xml.path \in HandledEndpoints
           /\ err' = "ok") =>
              /\ StateNext = Carried(State, op'.pkt.xml)
              /\ _handlers' = _handlers
       /\ op'.name \in {"update_status", "register", "unregister"} =>
              StateNext = State]_vars

\* A second version answer has replaced the first one while the other
\* groups, filled by earlier answers, are intact.
C19_Witness ==
    /\ IsAnswer(op)
    /\ op.pkt.xml.path = "/api/software/version/get"
    /\ op.pkt.xml.version = "2.1"
    /\ err = "ok"
    /\ _s_version = <<"2.1">>
    /\ first_write # None
    /\ _s_battery_state = 20
    /\ _s_eq_preset_id = <<2>>
    /\ _s_eq_presets # <<>>
    /\ _s_noise_cancellation
    /\ _handlers # {}

\* Nothing is in flight and the user makes no further call.
Quiet ==
    /\ to_zik = <<>>
    /\ to_host = <<>>
    /\ sets_left = 0

\* C20: with headphones that apply every SET and echo a notify, over a
\* channel that delivers everything in order, after a call of the
\* noise-cancellation setter the cached field eventually equals the
\* headphones' value and stays equal once the calls have ended.  With
\* headphones that drop the SET and send no notify, a difference present
\* when nothing is in flight and no call follows stays for ever.
C20_Reconciliation ==
    /\ []((zik_applies /\ op.name = "s_noise_cancellation") =>
            <>[](_s_noise_cancellation = zik_noise))
    /\ []((~zik_applies /\ Quiet /\ _s_noise_cancellation # zik_noise) =>
            [](_s_noise_cancellation # zik_noise))

\* The headphones dropped the SET: the engine holds the value the user set,
\* the headphones hold another, and nothing is left to happen.
C20_Witness ==
    /\ ~zik_applies
    /\ Quiet
    /\ first_write # None
    /\ _s_noise_cancellation # zik_noise

====
